---- MODULE Spec2Model ----
(***************************************************************************)
(* Day 12 packing solver (src/day12) over the common Grid (src/common).    *)
(*                                                                         *)
(* A Grid<T> is modelled by its only field `cells`: a sequence of rows,    *)
(* each a sequence of cell values.  TLA+ sequences are 1-based, positions  *)
(* (XY) are 0-based as in the source, so the cell at XY (x, y) is          *)
(* g[y + 1][x + 1].                                                        *)
(*                                                                         *)
(* Option<T> is modelled as a sequence of length at most one:              *)
(* None == << >> and Some(v) == << v >>.                                   *)
(*                                                                         *)
(* A usize value v is modelled by the integer v when v < 2^63 and by       *)
(* v - 2^64 otherwise (its two's-complement reading), so that the wrapping *)
(* subtraction of a build without overflow checks is plain integer         *)
(* subtraction and the unsigned comparison is ULt below.  Every usize the  *)
(* model computes is within a few units of 0 or of 2^64.                   *)
(***************************************************************************)
EXTENDS Integers, Sequences, FiniteSets

\* ------------------------------------------------------------------ bounds
\* Largest region side drawn by Init.
MaxDim == 4
\* Largest number of presents a region requires (sum of present_count).
MaxPresents == 2

\* ------------------------------------------------------------- Option, XY
None == << >>
Some(v) == << v >>

XY(x, y) == [x |-> x, y |-> y]

\* XY::add
add(a, b) == [x |-> a.x + b.x, y |-> a.y + b.y]

\* ------------------------------------------------------------------- Grid
\* Grid::width: the length of the first row, 0 for a grid without rows.
width(g) == IF Len(g) = 0 THEN 0 ELSE Len(g[1])

\* Grid::height
height(g) == Len(g)

\* Grid::new_sized: vec![vec![value; width]; height]
new_sized(w, h, value) == [r \in 1..h |-> [c \in 1..w |-> value]]

\* Grid::rotate_90: one row per source column x, read from the bottom row up.
rotate_90(g) ==
    [i \in 1..width(g) |-> [j \in 1..height(g) |-> g[height(g) - j + 1][i]]]

\* Grid::rotate_180: rows in reverse order, each row reversed.
rotate_180(g) ==
    [i \in 1..Len(g) |->
        [j \in 1..Len(g[Len(g) - i + 1]) |->
            g[Len(g) - i + 1][Len(g[Len(g) - i + 1]) - j + 1]]]

\* Grid::rotate_270: one row per source column, last column first, read top down.
rotate_270(g) ==
    [i \in 1..width(g) |-> [j \in 1..height(g) |-> g[j][width(g) - i + 1]]]

\* Mutant of flip_horizontal: every cell of a row takes the row's last value.
flip_horizontal_last(g) ==
    [i \in 1..Len(g) |-> [j \in 1..Len(g[i]) |-> g[i][Len(g[i])]]]

\* Grid::flip_horizontal: every row reversed.
flip_horizontal(g) ==
    [i \in 1..Len(g) |-> [j \in 1..Len(g[i]) |-> g[i][Len(g[i]) - j + 1]]]

\* Grid::flip_vertical: rows in reverse order.
flip_vertical(g) == [i \in 1..Len(g) |-> g[Len(g) - i + 1]]

\* Grid::cells: every cell with its position, row by row (row-major order).
RECURSIVE cells_from(_, _)
cells_from(g, r) ==
    IF r > Len(g) THEN << >>
    ELSE [c \in 1..Len(g[r]) |-> [xy |-> XY(c - 1, r - 1), cell |-> g[r][c]]]
         \o cells_from(g, r + 1)

cells(g) == cells_from(g, 1)

\* Grid::get: self.cells.get(xy.y)?.get(xy.x)? -- a cell view or None.
get(g, xy) ==
    IF xy.y >= 0 /\ xy.y < Len(g) /\ xy.x >= 0 /\ xy.x < Len(g[xy.y + 1])
    THEN Some([xy |-> xy, cell |-> g[xy.y + 1][xy.x + 1]])
    ELSE None

\* Grid::get_mut, as the test whether the mutable reference exists.
get_mut(g, xy) ==
    IF xy.y >= 0 /\ xy.y < Len(g) /\ xy.x >= 0 /\ xy.x < Len(g[xy.y + 1])
    THEN Some(g[xy.y + 1][xy.x + 1])
    ELSE None

\* ---------------------------------------------------------------- Present
IsFilled(c) == c.cell = "Filled"

\* Present::new: occupied_cells are the positions of the Filled cells, in the
\* order Grid::cells yields them.
Present_new(g) ==
    LET filled == SelectSeq(cells(g), IsFilled)
    IN  [grid |-> g, occupied_cells |-> [i \in 1..Len(filled) |-> filled[i].xy]]

\* Mutant of Present_rotate_90: the list of the previous orientation is kept.
Present_rotate_90_stale(p) ==
    [grid |-> rotate_90(p.grid), occupied_cells |-> p.occupied_cells]

Present_rotate_90(p) == Present_new(rotate_90(p.grid))
Present_rotate_180(p) == Present_new(rotate_180(p.grid))
Present_rotate_270(p) == Present_new(rotate_270(p.grid))
Present_flip_horizontal(p) == Present_new(flip_horizontal(p.grid))
Present_flip_vertical(p) == Present_new(flip_vertical(p.grid))

\* Mutant of Present_eq: equality over occupied_cells alone.
Present_eq_cells_only(a, b) == a.occupied_cells = b.occupied_cells

\* #[derive(PartialEq, Eq)] on Present: field by field, grid and occupied_cells.
Present_eq(a, b) == a.grid = b.grid /\ a.occupied_cells = b.occupied_cells

\* impl Hash for Present: only occupied_cells is fed to the hasher.  The hash
\* is modelled by the hashed data (two hashes agree iff the data agree).
Present_hash(p) == p.occupied_cells

\* ----------------------------------------------------------------- solver
\* all_orientations: the array of six presents, in source order.
all_orientations(p) ==
    << p,
       Present_rotate_90(p),
       Present_rotate_180(p),
       Present_rotate_270(p),
       Present_flip_horizontal(p),
       Present_flip_vertical(p) >>

\* collect::<HashSet<_>>(): insert one by one; an element equal (Present's ==)
\* to one already in the set is dropped.
RECURSIVE HashSet_collect(_, _, _)
HashSet_collect(s, i, acc) ==
    IF i > Len(s) THEN acc
    ELSE HashSet_collect(s, i + 1,
            IF \E e \in acc : Present_eq(e, s[i]) THEN acc ELSE acc \cup {s[i]})

\* Unsigned comparison a < b of two usize values (see the header).
ULt(a, b) ==
    IF a >= 0 /\ b >= 0 THEN a < b
    ELSE IF a < 0 /\ b < 0 THEN a < b
    ELSE b < 0

\* Mutant of xy_possibilities: the range ends lack the "+ 1".
xy_possibilities_short(grid_xsize, grid_ysize, present_xsize, present_ysize, checks) ==
    [panic |-> checks /\ (present_xsize > grid_xsize \/ present_ysize > grid_ysize),
     xn |-> grid_xsize - present_xsize,
     yn |-> grid_ysize - present_ysize]

\* xy_possibilities: the two range ends grid - present + 1.  With overflow
\* checks (debug profile) a present larger than the grid panics with
\* "attempt to subtract with overflow"; without them (release profile) the
\* subtraction wraps.  The ranges are lazy: xn, yn are their exclusive ends.
xy_possibilities(grid_xsize, grid_ysize, present_xsize, present_ysize, checks) ==
    [panic |-> checks /\ (present_xsize > grid_xsize \/ present_ysize > grid_ysize),
     xn |-> grid_xsize - present_xsize + 1,
     yn |-> grid_ysize - present_ysize + 1]

\* can_place_present: occupied cells in order; a cell outside the grid hits
\* expect("xy should be in grid"), the first non-Empty cell ends all() with
\* false.  "true", "false" or "panic".
RECURSIVE can_place_from(_, _, _, _)
can_place_from(grid, present, offset, i) ==
    IF i > Len(present.occupied_cells) THEN "true"
    ELSE LET c == get(grid, add(present.occupied_cells[i], offset))
         IN  IF c = None THEN "panic"
             ELSE IF c[1].cell # "Empty" THEN "false"
             ELSE can_place_from(grid, present, offset, i + 1)

\* Mutant of can_place_present: the cell's value is not looked at.
can_place_present_any_cell(grid, present, offset) ==
    IF \A i \in 1..Len(present.occupied_cells) :
          get(grid, add(present.occupied_cells[i], offset)) # None
    THEN "true" ELSE "panic"

can_place_present(grid, present, offset) == can_place_from(grid, present, offset, 1)

\* place_present: mark the translated occupied cells Filled, in order; a cell
\* outside the grid returns Err("xy should be in grid").
RECURSIVE place_from(_, _, _, _)
place_from(grid, present, offset, i) ==
    IF i > Len(present.occupied_cells) THEN [ok |-> TRUE, grid |-> grid]
    ELSE LET xy == add(present.occupied_cells[i], offset)
         IN  IF get_mut(grid, xy) = None THEN [ok |-> FALSE, grid |-> grid]
             ELSE place_from([grid EXCEPT ![xy.y + 1][xy.x + 1] = "Filled"],
                             present, offset, i + 1)

\* Mutant of place_present: only the first occupied cell is marked.
place_present_first_cell(grid, present, offset) ==
    place_from(grid, [present EXCEPT !.occupied_cells = SubSeq(@, 1, 1)], offset, 1)

place_present(grid, present, offset) == place_from(grid, present, offset, 1)

\* The lazy iterator xy_possibilities(..).filter(can_place_present) pulled
\* from cursor (x, y): x-major, y-minor.  An empty inner range (yn = 0) yields
\* nothing for any x.  kind is "found" (at xy), "exhausted" or "panic".
RECURSIVE next_placement(_, _, _, _, _, _)
next_placement(grid, present, xn, yn, x, y) ==
    IF yn = 0 \/ ~ULt(x, xn) THEN [kind |-> "exhausted", xy |-> XY(x, y)]
    ELSE IF ~ULt(y, yn) THEN next_placement(grid, present, xn, yn, x + 1, 0)
    ELSE LET r == can_place_present(grid, present, XY(x, y))
         IN  IF r = "panic" THEN [kind |-> "panic", xy |-> XY(x, y)]
             ELSE IF r = "true" THEN [kind |-> "found", xy |-> XY(x, y)]
             ELSE next_placement(grid, present, xn, yn, x, y + 1)

\* ----------------------------------------------------------------- inputs
E == "Empty"
F == "Filled"

\* The present catalog (Problem.presents) the regions index into:
\*   0: ##    1: #.    2: .##    3: #
\*      ##                ##.
Catalog ==
    << Present_new(<< <<F, F>>, <<F, F>> >>),
       Present_new(<< <<F, E>> >>),
       Present_new(<< <<E, F, F>>, <<F, F, E>> >>),
       Present_new(<< <<F>> >>) >>

RECURSIVE SumSeq(_, _)
SumSeq(s, i) == IF i > Len(s) THEN 0 ELSE s[i] + SumSeq(s, i + 1)

\* Mutant of presents_from: a required present is yielded once, whatever its
\* count.
RECURSIVE presents_from_once(_, _, _)
presents_from_once(region, presents, i) ==
    IF i > Len(region.present_count) THEN << >>
    ELSE (IF region.present_count[i] > 0 THEN << presents[i] >> ELSE << >>)
         \o presents_from_once(region, presents, i + 1)

\* Region::presents: catalog present i repeated present_count[i] times, in
\* index order; entries with count 0 are filtered out.
RECURSIVE presents_from(_, _, _)
presents_from(region, presents, i) ==
    IF i > Len(region.present_count) THEN << >>
    ELSE (IF region.present_count[i] > 0
          THEN [k \in 1..region.present_count[i] |-> presents[i]]
          ELSE << >>)
         \o presents_from(region, presents, i + 1)

Region_presents(region, presents) == presents_from(region, presents, 1)

\* The regions Init draws: every size up to MaxDim and every present_count of
\* the catalog's length that requires at most MaxPresents presents.
Regions ==
    { r \in [xsize : 1..MaxDim, ysize : 1..MaxDim,
             present_count : [1..Len(Catalog) -> 0..MaxPresents]] :
        SumSeq(r.present_count, 1) <= MaxPresents }

\* ------------------------------------------------------------------ state
VARIABLES
    overflow_checks,  \* build profile: TRUE = arithmetic overflow panics
    region,           \* the Region being solved
    stack,            \* call stack of solve_grid / place_present_and_solve
    ret,              \* how the call that ended last ended: "Some", "None",
                      \* "Panic", "Err"; "Pending" while a call is running
    printed,          \* grids printed after "Solved!"
    queue,            \* the present queue handed to solve_grid in this run
    run,              \* 1 for the first run of the program, 2 for a second one
    first_ret         \* how the first run ended, once a second one has begun

\* State of a client of the library types (Grid, XY, Present) on their own.
VARIABLES
    grids,            \* grids[1] is a constructed Grid, grids[i + 1] the value
                      \* returned by the call calls[i] on grids[i]
    the_present,      \* a Present: Present::new of a grid, then transformed
    calls,            \* names of the library methods called so far, in order
    panicked,         \* TRUE once a call panicked (index out of bounds)
    pos,              \* the position handed to Grid::get / the XY queried
    answer            \* what the last query returned

\* State of main and part1 around the searches.
VARIABLES
    problem,          \* the Problem handed to Problem::try_new / to part1
    workers,          \* part1: one record per region, the state of its worker
    count,            \* part1: the AtomicUsize progress counter
    solved_grid_count, \* part1: how it ended ([kind |-> "Ok", value |-> n],
                      \* "Panic", "Err"), kind "Pending" until then
    lines             \* the text lines of a shape handed to Grid::from_lines

vars == << overflow_checks, region, stack, ret, printed, queue, run, first_ret,
           grids, the_present, calls, panicked, pos, answer,
           problem, workers, count, solved_grid_count, lines >>
program == << problem, workers, count, solved_grid_count, lines >>
input == << overflow_checks, region, queue, run, first_ret >>
library == << grids, the_present, calls, panicked, pos, answer >>
solver == << overflow_checks, region, stack, ret, printed, queue, run, first_ret >>

\* The variables of main and part1 while one search or one library client is
\* looked at on its own.
NoProgram ==
    /\ problem = [presents |-> << >>, regions |-> << >>]
    /\ workers = << >>
    /\ count = 0
    /\ solved_grid_count = [kind |-> "Pending"]
    /\ lines = << >>

\* The library variables while the solver runs: no separate client.
NoLibrary ==
    /\ grids = << >>
    /\ the_present = None
    /\ calls = << >>
    /\ panicked = FALSE
    /\ pos = None
    /\ answer = [query |-> "none"]

Top == stack[Len(stack)]
Pop == SubSeq(stack, 1, Len(stack) - 1)
ReplaceTop(f) == [stack EXCEPT ![Len(stack)] = f]

solve_grid_frame(grid, presents) ==
    [fn |-> "solve_grid", pc |-> "entry", grid |-> grid, presents |-> presents,
     orientations |-> {}]

place_frame(grid, present, presents) ==
    [fn |-> "place_present_and_solve", pc |-> "entry", grid |-> grid,
     present |-> present, presents |-> presents,
     xn |-> 0, yn |-> 0, x |-> 0, y |-> 0, placement |-> None]

\* part1's closure for one region: the empty grid and the expanded queue.
presents_in_region == Region_presents(region, Catalog)
empty_grid == new_sized(region.xsize, region.ysize, "Empty")

Init ==
    /\ overflow_checks \in BOOLEAN
    /\ region \in Regions
    /\ queue = presents_in_region
    /\ stack = << solve_grid_frame(empty_grid, queue) >>
    /\ ret = "Pending"
    /\ printed = << >>
    /\ run = 1
    /\ first_ret = "Pending"
    /\ NoLibrary
    /\ NoProgram

InSolveGrid(pc) ==
    /\ stack # << >>
    /\ Top.fn = "solve_grid"
    /\ Top.pc = pc
    /\ ret \in {"Pending", "None"}

InPlace(pc) ==
    /\ stack # << >>
    /\ Top.fn = "place_present_and_solve"
    /\ Top.pc = pc
    /\ ret \in {"Pending", "None"}

\* solve_grid, presents.next() is None: print the grid, return Ok(Some(())).
SolveGridSolved ==
    /\ InSolveGrid("entry")
    /\ Top.presents = << >>
    /\ printed' = Append(printed, Top.grid)
    /\ ret' = "Some"
    /\ stack' = Pop
    /\ UNCHANGED << input, library, program >>

\* solve_grid, presents.next() is Some(this_present): build the HashSet of
\* its orientations.
SolveGridOrientations ==
    /\ InSolveGrid("entry")
    /\ Top.presents # << >>
    /\ stack' = ReplaceTop([Top EXCEPT
            !.pc = "loop",
            !.presents = Tail(Top.presents),
            !.orientations =
                HashSet_collect(all_orientations(Head(Top.presents)), 1, {})])
    /\ ret' = "Pending"
    /\ UNCHANGED << input, library, program, printed >>

\* solve_grid, one iteration of `for orientation in all_orientations`: the
\* HashSet yields its elements in an arbitrary order.
SolveGridTry ==
    /\ InSolveGrid("loop")
    /\ \E orientation \in Top.orientations :
          stack' = Append(
              ReplaceTop([Top EXCEPT !.orientations = @ \ {orientation}]),
              place_frame(Top.grid, orientation, Top.presents))
    /\ ret' = "Pending"
    /\ UNCHANGED << input, library, program, printed >>

\* solve_grid, the loop ran dry: Ok(None).
SolveGridExhausted ==
    /\ InSolveGrid("loop")
    /\ Top.orientations = {}
    /\ stack' = Pop
    /\ ret' = "None"
    /\ UNCHANGED << input, library, program, printed >>

\* place_present_and_solve, the call of xy_possibilities.  A panic ends the
\* run; the stack is kept as it was when the panic began.
PlaceEntry ==
    /\ InPlace("entry")
    /\ LET it == xy_possibilities(width(Top.grid), height(Top.grid),
                                  width(Top.present.grid), height(Top.present.grid),
                                  overflow_checks)
       IN  IF it.panic
           THEN /\ stack' = stack
                /\ ret' = "Panic"
           ELSE /\ stack' = ReplaceTop([Top EXCEPT
                        !.pc = "loop", !.xn = it.xn, !.yn = it.yn])
                /\ ret' = "Pending"
    /\ UNCHANGED << input, library, program, printed >>

Pull == next_placement(Top.grid, Top.present, Top.xn, Top.yn, Top.x, Top.y)

\* Mutant of PlaceAndRecurse: the present is placed on the grid the caller
\* passed in, not on a clone of it.
PlaceAndRecurseInPlace ==
    /\ InPlace("loop")
    /\ Pull.kind = "found"
    /\ LET placed == place_present(Top.grid, Top.present, Pull.xy)
       IN  IF placed.ok
           THEN /\ stack' = Append(
                        ReplaceTop([Top EXCEPT
                            !.grid = placed.grid,
                            !.placement = Some(Pull.xy),
                            !.x = Pull.xy.x, !.y = Pull.xy.y + 1]),
                        solve_grid_frame(placed.grid, Top.presents))
                /\ ret' = "Pending"
           ELSE /\ stack' = stack
                /\ ret' = "Err"
    /\ UNCHANGED << input, library, program, printed >>

\* place_present_and_solve, one iteration of `for placement in
\* possible_placements`: clone the grid, place the present, call solve_grid.
PlaceAndRecurse ==
    /\ InPlace("loop")
    /\ Pull.kind = "found"
    /\ LET placed == place_present(Top.grid, Top.present, Pull.xy)
       IN  IF placed.ok
           THEN /\ stack' = Append(
                        ReplaceTop([Top EXCEPT
                            !.placement = Some(Pull.xy),
                            !.x = Pull.xy.x, !.y = Pull.xy.y + 1]),
                        solve_grid_frame(placed.grid, Top.presents))
                /\ ret' = "Pending"
           ELSE /\ stack' = stack
                /\ ret' = "Err"
    /\ UNCHANGED << input, library, program, printed >>

\* place_present_and_solve, no placement left: Ok(None).
PlaceExhausted ==
    /\ InPlace("loop")
    /\ Pull.kind = "exhausted"
    /\ stack' = Pop
    /\ ret' = "None"
    /\ UNCHANGED << input, library, program, printed >>

\* The filter reaches an offset whose cell is outside the grid: the expect in
\* can_place_present panics and the run is over (the stack is kept as it was
\* when the panic began).
PlacePanic ==
    /\ InPlace("loop")
    /\ Pull.kind = "panic"
    /\ stack' = stack
    /\ ret' = "Panic"
    /\ UNCHANGED << input, library, program, printed >>

\* Mutant of ReturnSome: the caller drops the success and goes on with its
\* loop.
ReturnSomeIgnored ==
    /\ stack # << >>
    /\ ret = "Some"
    /\ ret' = "None"
    /\ UNCHANGED << input, library, program, stack, printed >>

\* `if result.is_some() { return Ok(result); }` in both functions: a success
\* is handed to the caller without another iteration.
ReturnSome ==
    /\ stack # << >>
    /\ ret = "Some"
    /\ stack' = Pop
    /\ UNCHANGED << input, library, program, ret, printed >>

Next ==
    \/ SolveGridSolved
    \/ SolveGridOrientations
    \/ SolveGridTry
    \/ SolveGridExhausted
    \/ PlaceEntry
    \/ PlaceAndRecurse
    \/ PlaceExhausted
    \/ PlacePanic
    \/ ReturnSome

Spec == Init /\ [][Next]_vars

\* The run is over: solve_grid returned to part1, or the thread panicked.
Done == stack = << >> \/ ret \in {"Panic", "Err"}

RECURSIVE Orderings(_)
Orderings(s) ==
    IF s = << >> THEN { << >> }
    ELSE UNION { { << s[i] >> \o t :
                    t \in Orderings(SubSeq(s, 1, i - 1) \o SubSeq(s, i + 1, Len(s))) } :
                 i \in 1..Len(s) }

\* The program is run a second time on the same region; solve_grid is handed
\* the same presents in any order.
Rerun ==
    /\ Done
    /\ run = 1
    /\ run' = 2
    /\ first_ret' = ret
    /\ queue' \in Orderings(queue)
    /\ stack' = << solve_grid_frame(empty_grid, queue') >>
    /\ ret' = "Pending"
    /\ printed' = << >>
    /\ UNCHANGED << overflow_checks, region, library, program >>

NextRerun == Next \/ Rerun

SpecRerun == Init /\ [][NextRerun]_vars

\* ------------------------------------------------------- shared by claims
\* Number of Filled cells of a grid.
FilledCount(g) == Len(SelectSeq(cells(g), IsFilled))

\* Sum of the occupied-cell counts of a sequence of presents.
RECURSIVE OccupiedTotal(_, _)
OccupiedTotal(ps, i) ==
    IF i > Len(ps) THEN 0 ELSE Len(ps[i].occupied_cells) + OccupiedTotal(ps, i + 1)

\* The occupied cells of an oriented present translated by an offset, as a set.
Translated(present, offset) ==
    { add(present.occupied_cells[i], offset) : i \in 1..Len(present.occupied_cells) }

\* The positions of a w x h grid.
GridPositions(w, h) == { XY(x, y) : x \in 0..(w - 1), y \in 0..(h - 1) }

\* The six orientations of a present, as a set of values.
SixOrientations(p) == UNION { { os[i] : i \in 1..6 } : os \in { all_orientations(p) } }

\* The state in which solve_grid reports success: it was called with an empty
\* queue.  Below it on the stack lie the calls that placed the presents.
Solved ==
    /\ stack # << >>
    /\ Top.fn = "solve_grid"
    /\ Top.pc = "entry"
    /\ Top.presents = << >>
    /\ ret \in {"Pending", "None"}

\* The k-th place_present_and_solve call on the stack (frame 2k).
Placing(k) == stack[2 * k]

\* C1: soundness.  When solve_grid reports success, the chosen placements
\* (one orientation of the k-th present of the queue at one offset each) lie
\* inside the grid and are pairwise disjoint: their union has as many cells as
\* the presents' occupied-cell counts sum to, it is exactly the Filled part of
\* the grid reached, and the grid printed with the success has that many
\* Filled cells.
C1_Soundness ==
    /\ Solved =>
         LET n == Len(queue)
             placed == UNION { Translated(Placing(k).present, Placing(k).placement[1]) :
                               k \in 1..n }
         IN  /\ Len(stack) = 2 * n + 1
             /\ \A k \in 1..n :
                  /\ Placing(k).fn = "place_present_and_solve"
                  /\ Placing(k).placement # None
                  /\ Placing(k).present \in SixOrientations(queue[k])
                  /\ Translated(Placing(k).present, Placing(k).placement[1])
                        \subseteq GridPositions(region.xsize, region.ysize)
             /\ Cardinality(placed) = OccupiedTotal(queue, 1)
             /\ placed = { c.xy : c \in { d \in { cells(Top.grid)[i] :
                                    i \in 1..Len(cells(Top.grid)) } : IsFilled(d) } }
    /\ ret = "Some" =>
         /\ Len(printed) = 1
         /\ width(printed[1]) = region.xsize
         /\ height(printed[1]) = region.ysize
         /\ FilledCount(printed[1]) = OccupiedTotal(queue, 1)

\* C1 witness: a run that ended in success after placing two presents.
C1_Witness ==
    /\ Done
    /\ ret = "Some"
    /\ Len(queue) = 2
    /\ FilledCount(printed[1]) = OccupiedTotal(queue, 1)

\* The images of a present under the two reflections combined with a quarter
\* turn (the transpose and the anti-transpose of its grid).
DiagonalImages(p) ==
    { Present_new(flip_horizontal(rotate_90(p.grid))),
      Present_new(flip_horizontal(rotate_270(p.grid))) }

\* The images of a present under the 8 symmetries of the plane.
EightImages(p) == SixOrientations(p) \cup DiagonalImages(p)

Images(p, eight) == IF eight THEN EightImages(p) ELSE SixOrientations(p)

\* There is an assignment of one image and one offset to each of the presents
\* ps[i], ps[i+1], ... such that each image's bounding grid lies inside the
\* region and its occupied cells lie on distinct cells of `free`.
RECURSIVE Packable(_, _, _, _)
Packable(free, ps, i, eight) ==
    \/ i > Len(ps)
    \/ \E o \in Images(ps[i], eight) :
         \E x \in 0..(region.xsize - width(o.grid)), y \in 0..(region.ysize - height(o.grid)) :
            /\ Translated(o, XY(x, y)) \subseteq free
            /\ Packable(free \ Translated(o, XY(x, y)), ps, i + 1, eight)

\* C2: completeness over the six orientations.  A finished run answers
\* Ok(None) only if no assignment of one of the six orientations and an
\* in-bounds offset to every present of the queue exists, and answers success
\* whenever one exists.
C2_Completeness ==
    Done =>
      LET exists == Packable(GridPositions(region.xsize, region.ysize), queue, 1, FALSE)
      IN  /\ ret = "None" => ~exists
          /\ exists => ret = "Some"

\* solve_grid is about to build the orientations of this_present.
Orienting ==
    /\ stack # << >>
    /\ Top.fn = "solve_grid"
    /\ Top.pc = "entry"
    /\ Top.presents # << >>
    /\ ret \in {"Pending", "None"}

this_present == Head(Top.presents)

\* C3: every rotation/reflection is tried.  The orientation set of each
\* present holds all its images under the 8 symmetries of the plane, and a
\* finished run reports success whenever the presents can be packed using
\* any of these images.
C3_AllSymmetries ==
    /\ Orienting =>
         EightImages(this_present)
            \subseteq HashSet_collect(all_orientations(this_present), 1, {})
    /\ (Done /\ Packable(GridPositions(region.xsize, region.ysize), queue, 1, TRUE))
         => ret = "Some"

\* The oriented present of a place_present_and_solve call is strictly larger
\* than the grid in width or in height.
Oversize(f) ==
    \/ width(f.present.grid) > width(f.grid)
    \/ height(f.present.grid) > height(f.grid)

Fits(p) == width(p.grid) <= region.xsize /\ height(p.grid) <= region.ysize

\* C4: an orientation larger than the grid is skipped.  A call of
\* place_present_and_solve with such an orientation neither panics nor
\* returns an error and has no candidate offset, and a run with a single
\* present succeeds iff one of its orientations fits (Ok(None) otherwise).
C4_OversizeSkipped ==
    /\ (stack # << >> /\ Top.fn = "place_present_and_solve" /\ Oversize(Top)) =>
         /\ ret \notin {"Panic", "Err"}
         /\ (Top.pc = "loop" /\ ret \in {"Pending", "None"}) => Pull.kind = "exhausted"
    /\ (Done /\ Len(queue) = 1) =>
         ret = IF \E o \in SixOrientations(queue[1]) : Fits(o) THEN "Some" ELSE "None"

\* C5: the offset generator is exact.  For the sizes of every call, the
\* offsets xy_possibilities yields are those (x, y) with x + pw <= gw and
\* y + ph <= gh and no other (none at all when pw > gw or ph > gh), and on an
\* all-empty grid that the present fits, (0,0) is among them and passes
\* can_place_present.
C5_OffsetsExact ==
    (stack # << >> /\ Top.fn = "place_present_and_solve" /\ Top.pc = "entry") =>
      LET gw == width(Top.grid)
          gh == height(Top.grid)
          pw == width(Top.present.grid)
          ph == height(Top.present.grid)
          it == xy_possibilities(gw, gh, pw, ph, overflow_checks)
          yields(x, y) == ULt(x, it.xn) /\ ULt(y, it.yn)
      IN  /\ ~it.panic
          /\ \A x \in 0..(gw + 1), y \in 0..(gh + 1) :
                yields(x, y) <=> (x + pw <= gw /\ y + ph <= gh)
          /\ (pw <= gw /\ ph <= gh /\ FilledCount(Top.grid) = 0) =>
                /\ yields(0, 0)
                /\ can_place_present(Top.grid, Top.present, XY(0, 0)) = "true"

\* C6: determinism of the verdict.  A second run on the same region and the
\* same queue ends as the first run did.
C6_Deterministic ==
    (run = 2 /\ Done /\ queue = presents_in_region) => ret = first_ret

\* C7: queue order.  A second run on the same region with the presents in
\* another order ends as the first run did.
C7_QueueOrder ==
    (run = 2 /\ Done /\ queue # presents_in_region) => ret = first_ret

TwoSquares == << Catalog[1], Catalog[1] >>

\* C8: a 4x4 region requiring two copies of the 2x2 square is solved; the
\* grid reported holds the 8 cells of the two squares.
C8_TwoSquares ==
    (Done /\ region.xsize = 4 /\ region.ysize = 4 /\ queue = TwoSquares) =>
        /\ ret = "Some"
        /\ FilledCount(printed[1]) = 8

\* C8 witness: the run on that region is over, with success.
C8_Witness ==
    /\ Done
    /\ region.xsize = 4 /\ region.ysize = 4
    /\ queue = TwoSquares
    /\ ret = "Some"

\* C9: over-full regions fail.  When every present's bounding box fits the
\* region and the presents have more occupied cells than the region has
\* cells, the run ends with Ok(None).
C9_OverfullFails ==
    (/\ Done
     /\ \A i \in 1..Len(queue) : Fits(queue[i])
     /\ OccupiedTotal(queue, 1) > region.xsize * region.ysize)
        => ret = "None"

\* Two presents share their occupied cells although their grids differ in
\* size.
SameCellsOtherGrid(a, b) ==
    /\ a.occupied_cells = b.occupied_cells
    /\ << width(a.grid), height(a.grid) >> # << width(b.grid), height(b.grid) >>

MaxSide == 2
\* Largest number of transform calls a client makes on one value.
MaxCalls == 2
\* Coordinates queried: 0 .. MaxCoord and, read as usize, the MaxCoord values
\* below 2^64 (usize::MAX is -1, see the header).
MaxCoord == 3

\* Every Vec<Vec<Cell>> Grid::from_lines builds from lines of '.' and '#':
\* any number of rows, each of any length (the lengths are not compared).
GridRows == UNION { [1..w -> {E, F}] : w \in 0..MaxSide }
Grids == UNION { [1..h -> GridRows] : h \in 0..MaxSide }

\* self.cells[y][x] in rotate_90 / rotate_270, x < width(), y < height():
\* indexing a row shorter than the first one panics (index out of bounds).
index_panics(g) == \E y \in 1..Len(g) : Len(g[y]) < width(g)

\* Mutant of checked_add_signed: the addition wraps around.
wrapping_add_signed(u, d) == Some(u + d)

\* usize::checked_add_signed for a step of -1, 0 or 1: None when the result
\* leaves 0 ..= usize::MAX.
checked_add_signed(u, d) ==
    IF (u = 0 /\ d = -1) \/ (u = -1 /\ d = 1) THEN None ELSE Some(u + d)

\* DIRECTIONS of adjacent_cardinal_positions and of adjacent_positions.
CARDINAL_DIRECTIONS == << <<0, -1>>, <<1, 0>>, <<0, 1>>, <<-1, 0>> >>
DIRECTIONS ==
    << <<-1, -1>>, <<0, -1>>, <<1, -1>>,
       <<-1, 0>>, <<1, 0>>,
       <<-1, 1>>, <<0, 1>>, <<1, 1>> >>

\* DIRECTIONS.iter().filter_map(..): a direction yields a position when both
\* checked additions succeed, and nothing otherwise.
RECURSIVE filter_map_directions(_, _, _)
filter_map_directions(p, dirs, i) ==
    IF i > Len(dirs) THEN << >>
    ELSE LET nx == checked_add_signed(p.x, dirs[i][1])
             ny == checked_add_signed(p.y, dirs[i][2])
         IN  (IF nx = None \/ ny = None THEN << >> ELSE << XY(nx[1], ny[1]) >>)
             \o filter_map_directions(p, dirs, i + 1)

adjacent_cardinal_positions(p) == filter_map_directions(p, CARDINAL_DIRECTIONS, 1)
adjacent_positions(p) == filter_map_directions(p, DIRECTIONS, 1)

\* The solver variables while a library client runs: no search.
NoSolver ==
    /\ overflow_checks = FALSE
    /\ region = [xsize |-> 0, ysize |-> 0, present_count |-> << >>]
    /\ stack = << >>
    /\ ret = "Pending"
    /\ printed = << >>
    /\ queue = << >>
    /\ run = 1
    /\ first_ret = "Pending"

\* ---------------------------------------------------- a client of Present
\* Present::new on a grid built by Grid::from_lines.
InitPresent ==
    /\ NoSolver
    /\ NoProgram
    /\ grids = << >>
    /\ the_present \in { Present_new(g) : g \in Grids }
    /\ calls = << >>
    /\ panicked = FALSE
    /\ pos = None
    /\ answer = [query |-> "none"]

CanCall == ~panicked /\ Len(calls) < MaxCalls /\ answer.query = "none"

\* Present::rotate_90: Self::new(self.grid.rotate_90()).
PresentRotate90 ==
    /\ CanCall
    /\ calls' = Append(calls, "rotate_90")
    /\ IF index_panics(the_present.grid)
       THEN panicked' = TRUE /\ the_present' = the_present
       ELSE panicked' = FALSE /\ the_present' = Present_rotate_90(the_present)
    /\ UNCHANGED << solver, program, grids, pos, answer >>

\* Present::rotate_180
PresentRotate180 ==
    /\ CanCall
    /\ calls' = Append(calls, "rotate_180")
    /\ the_present' = Present_rotate_180(the_present)
    /\ UNCHANGED << solver, program, grids, panicked, pos, answer >>

\* Present::rotate_270
PresentRotate270 ==
    /\ CanCall
    /\ calls' = Append(calls, "rotate_270")
    /\ IF index_panics(the_present.grid)
       THEN panicked' = TRUE /\ the_present' = the_present
       ELSE panicked' = FALSE /\ the_present' = Present_rotate_270(the_present)
    /\ UNCHANGED << solver, program, grids, pos, answer >>

\* Present::flip_horizontal
PresentFlipHorizontal ==
    /\ CanCall
    /\ calls' = Append(calls, "flip_horizontal")
    /\ the_present' = Present_flip_horizontal(the_present)
    /\ UNCHANGED << solver, program, grids, panicked, pos, answer >>

\* Present::flip_vertical
PresentFlipVertical ==
    /\ CanCall
    /\ calls' = Append(calls, "flip_vertical")
    /\ the_present' = Present_flip_vertical(the_present)
    /\ UNCHANGED << solver, program, grids, panicked, pos, answer >>

\* all_orientations(&the_present), called as solve_grid calls it, on a present
\* as it was constructed: the array is built element by element, so a panic
\* of rotate_90 ends the call before anything is returned.
AllOrientations ==
    /\ ~panicked
    /\ calls = << >>
    /\ answer.query = "none"
    /\ IF index_panics(the_present.grid)
       THEN panicked' = TRUE /\ answer' = answer
       ELSE /\ panicked' = FALSE
            /\ answer' = [query |-> "all_orientations",
                          value |-> all_orientations(the_present)]
    /\ UNCHANGED << solver, program, grids, the_present, calls, pos >>

NextPresent ==
    \/ PresentRotate90
    \/ PresentRotate180
    \/ PresentRotate270
    \/ PresentFlipHorizontal
    \/ PresentFlipVertical
    \/ AllOrientations

SpecPresent == InitPresent /\ [][NextPresent]_vars

\* The positions at which a grid holds Filled, read off the rows directly.
FilledPositions(g) ==
    { p \in { XY(x, y) : x \in 0..(MaxSide + 1), y \in 0..(MaxSide + 1) } :
        /\ p.y < Len(g)
        /\ p.x < Len(g[p.y + 1])
        /\ g[p.y + 1][p.x + 1] = F }

\* C11: after Present::new and after every sequence of transforms, the
\* occupied_cells of a present are exactly the positions at which its own
\* backing grid holds Filled, each listed once.
C11_OccupiedConsistent ==
    /\ { the_present.occupied_cells[i] : i \in 1..Len(the_present.occupied_cells) }
          = FilledPositions(the_present.grid)
    /\ Len(the_present.occupied_cells) = Cardinality(FilledPositions(the_present.grid))

\* C11 witness: two transforms were applied, the first a quarter turn, to a
\* present that is not square and has Filled and Empty cells.
C11_Witness ==
    /\ Len(calls) = 2
    /\ calls[1] = "rotate_90"
    /\ ~panicked
    /\ width(the_present.grid) # height(the_present.grid)
    /\ Len(the_present.occupied_cells) >= 1
    /\ Len(the_present.occupied_cells) < Len(cells(the_present.grid))

\* C12: the six orientations all_orientations returns have the same number
\* of occupied cells, for every present.
C12_OrientationCount ==
    answer.query = "all_orientations" =>
        \A i, j \in 1..6 :
            Len(answer.value[i].occupied_cells) = Len(answer.value[j].occupied_cells)

\* ------------------------------------------------------- a client of Grid
\* A grid built by Grid::from_lines (Grid::new_sized builds the uniform ones).
InitGrid ==
    /\ NoSolver
    /\ NoProgram
    /\ grids \in { << g >> : g \in Grids }
    /\ the_present = None
    /\ calls = << >>
    /\ panicked = FALSE
    /\ pos = None
    /\ answer = [query |-> "none"]

\* The grid the next call is made on.
Current == grids[Len(grids)]

\* Grid::rotate_90
GridRotate90 ==
    /\ CanCall
    /\ calls' = Append(calls, "rotate_90")
    /\ IF index_panics(Current)
       THEN panicked' = TRUE /\ grids' = grids
       ELSE panicked' = FALSE /\ grids' = Append(grids, rotate_90(Current))
    /\ UNCHANGED << solver, program, the_present, pos, answer >>

\* Grid::rotate_180
GridRotate180 ==
    /\ CanCall
    /\ calls' = Append(calls, "rotate_180")
    /\ grids' = Append(grids, rotate_180(Current))
    /\ UNCHANGED << solver, program, the_present, panicked, pos, answer >>

\* Grid::rotate_270
GridRotate270 ==
    /\ CanCall
    /\ calls' = Append(calls, "rotate_270")
    /\ IF index_panics(Current)
       THEN panicked' = TRUE /\ grids' = grids
       ELSE panicked' = FALSE /\ grids' = Append(grids, rotate_270(Current))
    /\ UNCHANGED << solver, program, the_present, pos, answer >>

\* Grid::flip_horizontal
GridFlipHorizontal ==
    /\ CanCall
    /\ calls' = Append(calls, "flip_horizontal")
    /\ grids' = Append(grids, flip_horizontal(Current))
    /\ UNCHANGED << solver, program, the_present, panicked, pos, answer >>

\* Grid::flip_vertical
GridFlipVertical ==
    /\ CanCall
    /\ calls' = Append(calls, "flip_vertical")
    /\ grids' = Append(grids, flip_vertical(Current))
    /\ UNCHANGED << solver, program, the_present, panicked, pos, answer >>

NextGrid ==
    \/ GridRotate90
    \/ GridRotate180
    \/ GridRotate270
    \/ GridFlipHorizontal
    \/ GridFlipVertical

SpecGrid == InitGrid /\ [][NextGrid]_vars

\* Every row is as long as the first one.
Rectangular(g) == \A y \in 1..Len(g) : Len(g[y]) = width(g)

\* The positions of the cells a grid holds.
CellPositions(g) ==
    { p \in { XY(x, y) : x \in 0..(MaxSide + 1), y \in 0..(MaxSide + 1) } :
        get(g, p) # None }

\* The calls made were exactly these two, and both returned.
Called(first, second) == calls = << first, second >> /\ ~panicked

\* C13: rotate_90 applied four times to a rectangular grid (zero rows and
\* rows of zero width included) returns a grid equal to the original: after
\* two calls, two more lead back to the first grid.
C13_RotateFourTimes ==
    (Called("rotate_90", "rotate_90") /\ Rectangular(grids[1])) =>
        /\ ~index_panics(grids[3])
        /\ ~index_panics(rotate_90(grids[3]))
        /\ rotate_90(rotate_90(grids[3])) = grids[1]

\* C14: flip_horizontal called twice returns the original grid, and so does
\* flip_vertical called twice, on every grid.
C14_FlipsInvolutions ==
    /\ Called("flip_horizontal", "flip_horizontal") => grids[3] = grids[1]
    /\ Called("flip_vertical", "flip_vertical") => grids[3] = grids[1]

\* C14 witness: flip_horizontal was called twice on a grid that neither flip
\* leaves as it is.
C14_Witness ==
    /\ Called("flip_horizontal", "flip_horizontal")
    /\ grids[2] # grids[1]
    /\ flip_vertical(grids[1]) # grids[1]
    /\ flip_vertical(flip_vertical(grids[1])) = grids[1]

\* C15: rotate_180 keeps width and height and moves the value at (x, y) to
\* (width-1-x, height-1-y); flip_horizontal then flip_vertical, and
\* flip_vertical then flip_horizontal, give the same grid as rotate_180.
C15_Rotate180 ==
    /\ \A k \in 1..Len(calls) :
          (calls[k] = "rotate_180" /\ k < Len(grids)) =>
              \A g \in { grids[k] } : \A r \in { grids[k + 1] } :
                  /\ width(r) = width(g)
                  /\ height(r) = height(g)
                  /\ \A p \in CellPositions(g) :
                        \A c \in { get(r, XY(width(g) - 1 - p.x, height(g) - 1 - p.y)) } :
                            c # None /\ c[1].cell = get(g, p)[1].cell
    /\ Called("flip_horizontal", "flip_vertical") => grids[3] = rotate_180(grids[1])
    /\ Called("flip_vertical", "flip_horizontal") => grids[3] = rotate_180(grids[1])

\* C16: on a rectangular grid rotate_90 returns a grid whose width is the
\* source's height and whose height is the source's width, holding the value
\* of every source cell (x, y) at (height-1-y, x).
C16_Rotate90Clockwise ==
    \A k \in 1..Len(calls) :
        (calls[k] = "rotate_90" /\ Rectangular(grids[k])) =>
            /\ k < Len(grids)
            /\ \A g \in { grids[k] } : \A r \in { grids[k + 1] } :
                  /\ width(r) = height(g)
                  /\ height(r) = width(g)
                  /\ \A p \in CellPositions(g) :
                        \A c \in { get(r, XY(height(g) - 1 - p.y, p.x)) } :
                            c # None /\ c[1].cell = get(g, p)[1].cell

\* C17: on a rectangular grid rotate_270 undoes rotate_90 and rotate_90
\* undoes rotate_270, and rotate_270 equals three calls of rotate_90.
C17_Rotate270Inverse ==
    /\ (Called("rotate_90", "rotate_270") /\ Rectangular(grids[1])) =>
          grids[3] = grids[1]
    /\ (Called("rotate_270", "rotate_90") /\ Rectangular(grids[1])) =>
          grids[3] = grids[1]
    /\ (Called("rotate_90", "rotate_90") /\ Rectangular(grids[1])) =>
          /\ ~index_panics(grids[3])
          /\ rotate_90(grids[3]) = rotate_270(grids[1])

\* C18: flip_horizontal and flip_vertical keep width and height;
\* flip_horizontal moves the value at (x, y) to (width-1-x, y) and
\* flip_vertical moves it to (x, height-1-y).
C18_FlipsMirror ==
    \A k \in 1..Len(calls) :
        (calls[k] \in {"flip_horizontal", "flip_vertical"} /\ k < Len(grids)) =>
            \A g \in { grids[k] } : \A r \in { grids[k + 1] } :
                /\ width(r) = width(g)
                /\ height(r) = height(g)
                /\ \A p \in CellPositions(g) :
                      \A c \in { get(r, IF calls[k] = "flip_horizontal"
                                         THEN XY(width(g) - 1 - p.x, p.y)
                                         ELSE XY(p.x, height(g) - 1 - p.y)) } :
                          c # None /\ c[1].cell = get(g, p)[1].cell

\* --------------------------------------------- a client of Grid::get(_mut)
\* The usize values queried, by their reading (see the header).
Coords == (-MaxCoord)..MaxCoord

\* A grid built by Grid::from_lines and a position built by XY::new.
InitQuery ==
    /\ NoSolver
    /\ NoProgram
    /\ grids \in { << g >> : g \in Grids }
    /\ the_present = None
    /\ calls = << >>
    /\ panicked = FALSE
    /\ pos \in { XY(x, y) : x \in Coords, y \in Coords }
    /\ answer = [query |-> "none"]

\* Grid::get(pos)
Get ==
    /\ answer.query = "none"
    /\ answer' = [query |-> "get", value |-> get(Current, pos)]
    /\ UNCHANGED << solver, program, grids, the_present, calls, panicked, pos >>

\* Grid::get_mut(&pos)
GetMut ==
    /\ answer.query = "none"
    /\ answer' = [query |-> "get_mut", value |-> get_mut(Current, pos)]
    /\ UNCHANGED << solver, program, grids, the_present, calls, panicked, pos >>

NextQuery == Get \/ GetMut

SpecQuery == InitQuery /\ [][NextQuery]_vars

\* C19: Grid::get returns a cell view, carrying the position and the stored
\* value, iff x < width and y < height (as usize, so 0 <= x and 0 <= y), and
\* None otherwise, without a panic; Grid::get_mut returns a reference under
\* the same rule.
C19_BoundsSafeAccess ==
    /\ ~panicked
    /\ answer.query \in {"get", "get_mut"} =>
          (answer.value # None <=>
              (ULt(pos.x, width(Current)) /\ ULt(pos.y, height(Current))))
    /\ (answer.query = "get" /\ answer.value # None) =>
          /\ answer.value[1].xy = pos
          /\ answer.value[1].cell = Current[pos.y + 1][pos.x + 1]
    /\ (answer.query = "get_mut" /\ answer.value # None) =>
          answer.value[1] = Current[pos.y + 1][pos.x + 1]

\* ---------------------------------------------------------- a client of XY
\* A position built by XY::new.
InitXY ==
    /\ NoSolver
    /\ NoProgram
    /\ grids = << >>
    /\ the_present = None
    /\ calls = << >>
    /\ panicked = FALSE
    /\ pos \in { XY(x, y) : x \in Coords, y \in Coords }
    /\ answer = [query |-> "none"]

\* XY::adjacent_positions, collected
AdjacentPositions ==
    /\ answer.query = "none"
    /\ answer' = [query |-> "adjacent_positions", value |-> adjacent_positions(pos)]
    /\ UNCHANGED << solver, program, grids, the_present, calls, panicked, pos >>

\* XY::adjacent_cardinal_positions, collected
AdjacentCardinalPositions ==
    /\ answer.query = "none"
    /\ answer' = [query |-> "adjacent_cardinal_positions",
                  value |-> adjacent_cardinal_positions(pos)]
    /\ UNCHANGED << solver, program, grids, the_present, calls, panicked, pos >>

NextXY == AdjacentPositions \/ AdjacentCardinalPositions

SpecXY == InitXY /\ [][NextXY]_vars

\* The steps to the 8 surrounding positions and to the 4 cardinal ones.
Steps8 == { d \in { << dx, dy >> : dx \in {-1, 0, 1}, dy \in {-1, 0, 1} } : d # << 0, 0 >> }
Steps4 == { d \in Steps8 : d[1] = 0 \/ d[2] = 0 }

\* u + d is not negative / is not above usize::MAX (u by its reading).
NonNegative(u, d) == ~(u = 0 /\ d = -1)
AtMostMax(u, d) == ~(u = -1 /\ d = 1)

\* The positions a query returned, as a set.
Yielded == { answer.value[i] : i \in 1..Len(answer.value) }

\* The number of neighbours with non-negative coordinates among those
\* reached by the given steps.
NonNegativeCount(steps) ==
    Cardinality({ d \in steps : NonNegative(pos.x, d[1]) /\ NonNegative(pos.y, d[2]) })

\* C20 as stated: the neighbour queries yield one position for each
\* surrounding position whose coordinates are both non-negative (3 at the
\* origin, 5 when exactly one coordinate is 0, 8 otherwise; of the 4 cardinal
\* ones likewise), and never a wrapped one.
C20_NonNegativeNeighbours ==
    /\ answer.query = "adjacent_positions" =>
          /\ Len(answer.value) = NonNegativeCount(Steps8)
          /\ Len(answer.value) =
                IF pos.x = 0 /\ pos.y = 0 THEN 3
                ELSE IF pos.x = 0 \/ pos.y = 0 THEN 5 ELSE 8
    /\ answer.query = "adjacent_cardinal_positions" =>
          Len(answer.value) = NonNegativeCount(Steps4)

\* C20 as amended: the neighbour queries yield, each once, exactly the
\* surrounding positions whose coordinates both lie in 0 ..= usize::MAX; a
\* neighbour with a negative coordinate or one above usize::MAX is omitted,
\* never wrapped.  So 3 at the origin, 5 when exactly one coordinate is 0 and
\* the other is below usize::MAX, 8 when both lie strictly between 0 and
\* usize::MAX.
C20_InRangeNeighbours ==
    /\ ~panicked
    /\ answer.query \in {"adjacent_positions", "adjacent_cardinal_positions"} =>
          \A steps \in { IF answer.query = "adjacent_positions" THEN Steps8 ELSE Steps4 } :
              /\ Yielded =
                    { XY(pos.x + d[1], pos.y + d[2]) :
                        d \in { e \in steps :
                                  /\ NonNegative(pos.x, e[1]) /\ AtMostMax(pos.x, e[1])
                                  /\ NonNegative(pos.y, e[2]) /\ AtMostMax(pos.y, e[2]) } }
              /\ Len(answer.value) = Cardinality(Yielded)
              /\ \A p \in Yielded :
                    /\ (pos.x = 0 => p.x \in {0, 1}) /\ (pos.x = -1 => p.x \in {-2, -1})
                    /\ (pos.y = 0 => p.y \in {0, 1}) /\ (pos.y = -1 => p.y \in {-2, -1})
    /\ answer.query = "adjacent_positions" =>
          /\ (pos.x = 0 /\ pos.y = 0) => Len(answer.value) = 3
          /\ (pos.x = 0 /\ pos.y \notin {0, -1}) => Len(answer.value) = 5
          /\ (pos.y = 0 /\ pos.x \notin {0, -1}) => Len(answer.value) = 5
          /\ (pos.x \notin {0, -1} /\ pos.y \notin {0, -1}) => Len(answer.value) = 8

\* C20 witness: adjacent_positions was called at (usize::MAX, 1) and yielded
\* the 5 neighbours with x at most usize::MAX.
C20_Witness ==
    /\ answer.query = "adjacent_positions"
    /\ pos = XY(-1, 1)
    /\ Len(answer.value) = 5

\* ================================================================ Problem
\* Largest number of present types in a catalog handed to Problem::try_new.
MaxCatalog == 2
\* Largest number of regions of a Problem.
MaxRegions == 2

\* presents.get(i).expect("present index out of bounds") in Region::presents:
\* reached for an index with a positive count that the catalog does not have.
presents_panics(r, presents) ==
    \E i \in 1..Len(r.present_count) :
        r.present_count[i] > 0 /\ i > Len(presents)

\* Mutant of try_new: only a present_count shorter than the catalog is refused.
try_new_shorter(presents, regions) ==
    IF \E i \in 1..Len(regions) : Len(regions[i].present_count) < Len(presents)
    THEN [ok |-> FALSE]
    ELSE [ok |-> TRUE, problem |-> [presents |-> presents, regions |-> regions]]

\* Problem::try_new: bail when any region's present_count has another length
\* than the catalog, else Ok(Problem { presents, regions }).
try_new(presents, regions) ==
    IF \E i \in 1..Len(regions) : Len(regions[i].present_count) # Len(presents)
    THEN [ok |-> FALSE]
    ELSE [ok |-> TRUE, problem |-> [presents |-> presents, regions |-> regions]]

\* The present_count vectors of the given length requiring at most
\* MaxPresents presents.
CountsOfLen(n) ==
    { c \in [1..n -> 0..MaxPresents] : SumSeq(c, 1) <= MaxPresents }

\* The regions the parser hands to try_new along with a catalog of n present
\* types: each present_count as long as the catalog or one entry shorter or
\* longer.
ParsedRegions(n) ==
    { [xsize |-> 1, ysize |-> 1, present_count |-> c] :
        c \in UNION { CountsOfLen(m) : m \in { l \in (n - 1)..(n + 1) : l >= 0 } } }

InitProblem ==
    /\ NoSolver
    /\ NoLibrary
    /\ \E n \in 0..MaxCatalog : \E k \in 0..MaxRegions :
          \E rs \in [1..k -> ParsedRegions(n)] :
              problem = [presents |-> SubSeq(Catalog, 1, n), regions |-> rs]
    /\ workers = << >>
    /\ count = 0
    /\ solved_grid_count = [kind |-> "Pending"]
    /\ lines = << >>

\* parse_problem_internal: Problem::try_new(presents, regions).
TryNew ==
    /\ answer.query = "none"
    /\ answer' = [query |-> "try_new",
                  value |-> try_new(problem.presents, problem.regions)]
    /\ UNCHANGED << solver, program, grids, the_present, calls, panicked, pos >>

\* region.presents(&problem.presents), iterated to its end, for a region of
\* the Problem try_new returned: ret becomes "Yielded" and queue the presents
\* yielded, or ret becomes "Panic".
Expand ==
    /\ answer.query = "try_new"
    /\ answer.value.ok
    /\ ret = "Pending"
    /\ \E i \in 1..Len(answer.value.problem.regions) :
          /\ region' = answer.value.problem.regions[i]
          /\ IF presents_panics(region', answer.value.problem.presents)
             THEN ret' = "Panic" /\ queue' = queue
             ELSE /\ ret' = "Yielded"
                  /\ queue' = Region_presents(region', answer.value.problem.presents)
    /\ UNCHANGED << overflow_checks, stack, printed, run, first_ret, library, program >>

NextProblem == TryNew \/ Expand

SpecProblem == InitProblem /\ [][NextProblem]_vars

\* Sum of the first i entries of a present_count.
RECURSIVE PrefixSum(_, _)
PrefixSum(c, i) == IF i = 0 THEN 0 ELSE c[i] + PrefixSum(c, i - 1)

\* C21: for a region whose present_count is as long as the catalog,
\* Region::presents yields present_count[1] copies of the first catalog
\* present, then present_count[2] copies of the second, and so on; its length
\* is the sum of present_count.
C21_QueueExpansion ==
    ret = "Yielded" =>
        \A c \in { region.present_count } :
            /\ Len(queue) = SumSeq(c, 1)
            /\ \A i \in 1..Len(c) :
                  \A k \in (PrefixSum(c, i - 1) + 1)..PrefixSum(c, i) :
                      queue[k] = problem.presents[i]

\* C21 witness: a region requiring the second catalog present and two
\* presents in all was expanded.
C21_Witness ==
    /\ ret = "Yielded"
    /\ Len(region.present_count) = 2
    /\ region.present_count[2] > 0
    /\ Len(queue) = 2

\* C22: try_new returns an error iff some region's present_count is not as
\* long as the catalog, and otherwise the Problem as given; expanding a
\* region of a Problem it returned never panics.
C22_RegionInvariant ==
    /\ answer.query = "try_new" =>
          /\ ~answer.value.ok <=>
                \E i \in 1..Len(problem.regions) :
                    Len(problem.regions[i].present_count) # Len(problem.presents)
          /\ answer.value.ok => answer.value.problem = problem
    /\ ret # "Panic"

\* C22 witness: try_new accepted a Problem with two regions over a catalog
\* of two presents and one of its regions was expanded.
C22_Witness ==
    /\ ret = "Yielded"
    /\ Len(problem.regions) = 2
    /\ Len(problem.presents) = 2
    /\ queue # << >>

\* ============================================================ from_lines
\* Cell::from_str on one character: "." and "#" are cells, anything else is
\* Err("Invalid cell").
Cell_from_str(c) ==
    IF c = "." THEN [ok |-> TRUE, cell |-> E]
    ELSE IF c = "#" THEN [ok |-> TRUE, cell |-> F]
    ELSE [ok |-> FALSE]

\* Grid::from_lines: every character of every line is parsed, the first
\* error is returned; otherwise one row per line, one cell per character.
from_lines(ls) ==
    IF \E i \in 1..Len(ls) : \E j \in 1..Len(ls[i]) : ~Cell_from_str(ls[i][j]).ok
    THEN [ok |-> FALSE]
    ELSE [ok |-> TRUE,
          grid |-> [i \in 1..Len(ls) |->
                       [j \in 1..Len(ls[i]) |-> Cell_from_str(ls[i][j]).cell]]]

\* Lines of up to MaxSide characters, the characters of a shape and one that
\* is no cell.
TextLines == UNION { [1..w -> {".", "#", "x"}] : w \in 0..MaxSide }

InitParse ==
    /\ NoSolver
    /\ NoLibrary
    /\ problem = [presents |-> << >>, regions |-> << >>]
    /\ workers = << >>
    /\ count = 0
    /\ solved_grid_count = [kind |-> "Pending"]
    /\ \E h \in 0..MaxSide : lines \in [1..h -> TextLines]

\* Grid::from_lines(lines)
FromLines ==
    /\ answer.query = "none"
    /\ answer' = [query |-> "from_lines", value |-> from_lines(lines)]
    /\ UNCHANGED << solver, program, grids, the_present, calls, panicked, pos >>

\* parse_present: Grid::from_lines(grid_lines).map(|grid| Present::new(grid))
ParsePresent ==
    /\ answer.query = "from_lines"
    /\ answer.value.ok
    /\ answer' = [query |-> "parse_present", value |-> answer.value]
    /\ the_present' = Present_new(answer.value.grid)
    /\ UNCHANGED << solver, program, grids, calls, panicked, pos >>

NextParse == FromLines \/ ParsePresent

SpecParse == InitParse /\ [][NextParse]_vars

\* C23: lines of unequal length are rejected by Grid::from_lines, so every
\* grid it returns, and the backing grid of every parsed present, has rows
\* of equal length.
C23_Rectangularity ==
    /\ answer.query = "from_lines" =>
          /\ (\E i, j \in 1..Len(lines) : Len(lines[i]) # Len(lines[j])) =>
                ~answer.value.ok
          /\ answer.value.ok => Rectangular(answer.value.grid)
    /\ answer.query = "parse_present" => Rectangular(the_present.grid)

\* ============================================================ termination
\* The search is one sequential thread: a step that can be taken is taken.
SpecFair == Init /\ [][Next]_vars /\ WF_vars(Next)

\* The number of solve_grid calls on the stack.
Depth == Cardinality({ i \in 1..Len(stack) : stack[i].fn = "solve_grid" })

\* The length of the queue the i-th frame of the stack was called with (a
\* solve_grid call in its loop has taken this_present off its queue).
CalledWith(i) ==
    IF stack[i].fn = "solve_grid" /\ stack[i].pc = "loop"
    THEN Len(stack[i].presents) + 1
    ELSE Len(stack[i].presents)

\* C25: termination.  solve_grid eventually returns, with success or with
\* failure; every recursive solve_grid call was handed a strictly shorter
\* queue than the solve_grid call enclosing it, and there are never more
\* than (number of presents + 1) solve_grid calls on the stack.
C25_Termination ==
    /\ [](\A i \in 1..Len(stack) :
            (i > 2 /\ stack[i].fn = "solve_grid") =>
                CalledWith(i) < CalledWith(i - 2))
    /\ [](Depth <= Len(queue) + 1)
    /\ <>(stack = << >> /\ ret \in {"Some", "None"})

\* ============================================================ feasibility
\* The cell of a grid at an in-grid position.
CellAt(g, p) == g[p.y + 1][p.x + 1]

\* Every occupied cell of the present, translated by the offset, is a cell of
\* the grid and is Empty.
AllLandOnEmpty(g, present, offset) ==
    \A i \in 1..Len(present.occupied_cells) :
        \A p \in { add(present.occupied_cells[i], offset) } :
            /\ p.x >= 0 /\ p.x < width(g)
            /\ p.y >= 0 /\ p.y < height(g)
            /\ CellAt(g, p) = "Empty"

\* solve_grid has just been called by place_present_and_solve.
Recursed ==
    /\ Len(stack) > 1
    /\ Top.fn = "solve_grid"
    /\ Top.pc = "entry"
    /\ ret = "Pending"

Caller == stack[Len(stack) - 1]

\* C26: feasibility check.  For the grid and the oriented present of every
\* place_present_and_solve call and every offset, can_place_present is true
\* iff every translated occupied cell is an Empty cell of the grid; and the
\* grid a recursive solve_grid call is handed is the caller's grid with the
\* present placed at an offset for which the check is true on the caller's
\* grid.
C26_Feasibility ==
    /\ (stack # << >> /\ Top.fn = "place_present_and_solve" /\ Top.pc = "entry") =>
          \A x \in 0..width(Top.grid), y \in 0..height(Top.grid) :
              (can_place_present(Top.grid, Top.present, XY(x, y)) = "true")
                  <=> AllLandOnEmpty(Top.grid, Top.present, XY(x, y))
    /\ Recursed =>
          /\ Caller.placement # None
          /\ can_place_present(Caller.grid, Caller.present, Caller.placement[1]) = "true"
          /\ AllLandOnEmpty(Caller.grid, Caller.present, Caller.placement[1])
          /\ Top.grid = place_present(Caller.grid, Caller.present, Caller.placement[1]).grid

\* C26 witness: a present was placed on a grid that already holds Filled
\* cells, at an offset other than (0,0), and solve_grid was called on the
\* result.
C26_Witness ==
    /\ Recursed
    /\ FilledCount(Caller.grid) > 0
    /\ Caller.placement # None
    /\ Caller.placement[1] # XY(0, 0)
    /\ can_place_present(Caller.grid, Caller.present, XY(0, 0)) = "false"

\* ============================================================ bounds safety
\* The thread panicked in the expect("xy should be in grid") of
\* can_place_present: the filter of a place_present_and_solve loop read a
\* cell outside the grid.
ExpectPanicked ==
    /\ ret = "Panic"
    /\ Top.fn = "place_present_and_solve"
    /\ Top.pc = "loop"

\* C27: no out-of-bounds cell is addressed.  Every offset the filter of a
\* place_present_and_solve call comes to keeps the translated occupied cells
\* inside the grid, so the expect in can_place_present never panics, and
\* place_present never returns its error.
C27_NoOutOfBounds ==
    /\ InPlace("loop") => Pull.kind # "panic"
    /\ ~ExpectPanicked
    /\ ret # "Err"

\* ============================================================ backtracking
\* C28: backtracking leaves the caller's state untouched.  No step changes
\* the grid of a call on the stack; no step changes the queue of a call that
\* is waiting for a callee, neither the step that makes the call nor the
\* step in which the callee returns.  So when solve_grid or
\* place_present_and_solve returns, its caller's grid and queue are as they
\* were before the call, and cells are marked Filled only on the grid handed
\* to the new solve_grid call.
C28_CallerUntouched ==
    [][\A i \in 1..Len(stack) :
          i <= Len(stack') =>
            /\ stack'[i].grid = stack[i].grid
            /\ (i < Len(stack) \/ Len(stack') > Len(stack)) =>
                  stack'[i].presents = stack[i].presents]_vars

\* C28 witness: the solve_grid call that was handed the grid with the first
\* present placed has returned failure (the second present found no place),
\* and its caller place_present_and_solve still holds the all-Empty grid and
\* the one remaining present.
C28_Witness ==
    /\ Len(stack) = 2
    /\ ret = "None"
    /\ Top.fn = "place_present_and_solve"
    /\ Top.placement # None
    /\ Len(Top.presents) = 1
    /\ FilledCount(Top.grid) = 0

\* ============================================================ first solution
\* C29: first solution wins.  From the state in which solve_grid is called
\* with an empty queue on, and while a success is being returned, the only
\* thing a step does is return that success to the caller: the top call is
\* left, nothing is pushed, nothing more is printed after the solved grid.
C29_FirstSolutionWins ==
    [][(Solved \/ ret = "Some") =>
          /\ ret' = "Some"
          /\ stack' = Pop
          /\ ret = "Some" => printed' = printed]_vars

\* C29 witness: a success is being returned to a place_present_and_solve
\* call that has another feasible offset left, inside a solve_grid call that
\* has orientations left.
C29_Witness ==
    /\ ret = "Some"
    /\ Len(stack) = 2
    /\ stack[1].orientations # {}
    /\ next_placement(Top.grid, Top.present, Top.xn, Top.yn, Top.x, Top.y).kind = "found"

\* ============================================================ search state
\* solve_grid is called: a state (grid snapshot, remaining presents) of the
\* search.
SearchState ==
    /\ stack # << >>
    /\ Top.fn = "solve_grid"
    /\ Top.pc = "entry"

\* The number of presents taken off the original queue before that call.
Removed == Len(queue) - Len(Top.presents)

\* The positions of the Filled cells of a grid.
FilledPart(g) ==
    { p \in GridPositions(width(g), height(g)) : CellAt(g, p) = "Filled" }

\* C30: search-state invariant.  In every state of the search the remaining
\* presents are a suffix of the original queue, and the grid has as many
\* Filled cells as the presents removed from the queue have occupied cells;
\* the grid handed to a recursive solve_grid call keeps every Filled cell of
\* the caller's grid.
C30_SearchState ==
    /\ SearchState =>
          /\ Removed >= 0
          /\ Top.presents = SubSeq(queue, Removed + 1, Len(queue))
          /\ FilledCount(Top.grid) = OccupiedTotal(SubSeq(queue, 1, Removed), 1)
    /\ Recursed => FilledPart(Caller.grid) \subseteq FilledPart(Top.grid)

\* C30 witness: solve_grid is called with the second of two different
\* presents left and a grid that holds the cells of the first one.
C30_Witness ==
    /\ Recursed
    /\ Len(queue) = 2
    /\ queue[1] # queue[2]
    /\ Top.presents = << queue[2] >>
    /\ Len(queue[1].occupied_cells) > 1
    /\ FilledCount(Top.grid) = Len(queue[1].occupied_cells)

\* ============================================================ part1
MaxParSide == 2
MaxParPresents == 1

\* The regions of the problems part1 is run on.
ParRegions ==
    { r \in Regions : /\ r.xsize <= MaxParSide
                      /\ r.ysize <= MaxParSide
                      /\ SumSeq(r.present_count, 1) <= MaxParPresents }

\* One worker per region (one item of the parallel iterator): where its
\* closure stands, the result of its search and the value fetch_add returned.
idle_worker == [pc |-> "idle", res |-> "Pending", cur_count |-> -1]

InitParallel ==
    /\ overflow_checks \in BOOLEAN
    /\ region = [xsize |-> 0, ysize |-> 0, present_count |-> << >>]
    /\ stack = << >>
    /\ ret = "Pending"
    /\ printed = << >>
    /\ queue = << >>
    /\ run = 1
    /\ first_ret = [kind |-> "Pending"]
    /\ NoLibrary
    /\ \E k \in 1..MaxRegions : \E rs \in [1..k -> ParRegions] :
          /\ problem = [presents |-> Catalog, regions |-> rs]
          /\ workers = [w \in 1..k |-> idle_worker]
    /\ count = 0
    /\ solved_grid_count = [kind |-> "Pending"]
    /\ lines = << >>

Panicked == \E v \in 1..Len(workers) : workers[v].pc = "panicked"

\* The closure of region w begins: the empty grid and the queue are built
\* and solve_grid is called.  A search reads and writes nothing but its own
\* grid and queue, so the steps of two searches commute; the searches are
\* run one at a time, and every other step of every worker may come between
\* the steps of the running search.  In the sequential run the regions are
\* taken in order, one after the other.
WorkerStart(w) ==
    /\ solved_grid_count.kind = "Pending"
    /\ workers[w].pc = "idle"
    /\ \A v \in 1..Len(workers) : workers[v].pc # "solving"
    /\ run = 2 => \A v \in 1..(w - 1) : workers[v].pc = "done"
    /\ region' = problem.regions[w]
    /\ queue' = Region_presents(region', problem.presents)
    /\ stack' = << solve_grid_frame(
                      new_sized(region'.xsize, region'.ysize, "Empty"), queue') >>
    /\ ret' = "Pending"
    /\ printed' = << >>
    /\ workers' = [workers EXCEPT ![w].pc = "solving"]
    /\ UNCHANGED << overflow_checks, run, first_ret, library,
                    problem, count, solved_grid_count, lines >>

\* solve_grid is over for region w: `let res = solve_grid(..)`, or the
\* worker's thread unwinds with the panic.
WorkerSolved(w) ==
    /\ workers[w].pc = "solving"
    /\ Done
    /\ workers' = [workers EXCEPT
                      ![w].pc = IF ret = "Panic" THEN "panicked" ELSE "solved",
                      ![w].res = ret]
    /\ stack' = << >>
    /\ ret' = "Pending"
    /\ UNCHANGED << overflow_checks, region, printed, queue, run, first_ret,
                    library, problem, count, solved_grid_count, lines >>

\* count.fetch_add(1, Ordering::Relaxed), the progress line, and `res` is
\* the closure's value.
FetchAdd(w) ==
    /\ workers[w].pc = "solved"
    /\ workers' = [workers EXCEPT ![w].pc = "done", ![w].cur_count = count]
    /\ count' = count + 1
    /\ UNCHANGED << solver, library, problem, solved_grid_count, lines >>

\* After a panic the items not yet begun may never be run: the panic is
\* propagated to part1 once the running jobs are over.
Skip(w) ==
    /\ workers[w].pc = "idle"
    /\ Panicked
    /\ workers' = [workers EXCEPT ![w].pc = "skipped"]
    /\ UNCHANGED << solver, library, problem, count, solved_grid_count, lines >>

\* collect::<Result<Vec<_>>>()? and the count of the Some results.
Collect ==
    /\ solved_grid_count.kind = "Pending"
    /\ \A w \in 1..Len(workers) : workers[w].pc \in {"done", "panicked", "skipped"}
    /\ solved_grid_count' =
          IF Panicked THEN [kind |-> "Panic"]
          ELSE IF \E w \in 1..Len(workers) : workers[w].res = "Err"
          THEN [kind |-> "Err"]
          ELSE [kind |-> "Ok",
                value |-> Cardinality({ w \in 1..Len(workers) :
                                          workers[w].res = "Some" })]
    /\ UNCHANGED << solver, library, problem, workers, count, lines >>

\* part1 is run a second time on the same problem, the regions solved one
\* after another.
RerunSequential ==
    /\ run = 1
    /\ solved_grid_count.kind # "Pending"
    /\ run' = 2
    /\ first_ret' = solved_grid_count
    /\ workers' = [w \in 1..Len(workers) |-> idle_worker]
    /\ count' = 0
    /\ solved_grid_count' = [kind |-> "Pending"]
    /\ UNCHANGED << overflow_checks, region, stack, ret, printed, queue,
                    library, problem, lines >>

NextParallel ==
    \/ Next
    \/ \E w \in 1..Len(workers) :
          WorkerStart(w) \/ WorkerSolved(w) \/ FetchAdd(w) \/ Skip(w)
    \/ Collect
    \/ RerunSequential

SpecParallel == InitParallel /\ [][NextParallel]_vars

\* C24: region-level parallelism is safe.  When part1 is over, the progress
\* counter has been incremented exactly once per region (the values
\* fetch_add returned are 0 .. regions - 1, one each), part1's result is the
\* number of regions whose search succeeded, and the run that solves the
\* regions one after another ends with the same result as the parallel run
\* did, whatever its interleaving was.
C24_ParallelSafe ==
    solved_grid_count.kind # "Pending" =>
        /\ count = Len(problem.regions)
        /\ { workers[w].cur_count : w \in 1..Len(workers) }
              = 0..(Len(problem.regions) - 1)
        /\ solved_grid_count.kind = "Ok"
        /\ run = 2 => solved_grid_count = first_ret

====
